---- MODULE Spec2Model ----
(***************************************************************************)
(* The weekly schedule generator of app.py: the MDK (duty) assignment over *)
(* Monday, Tuesday and Thursday, then the planning of the five days:       *)
(* morning labs, morning Screen/MR, afternoon labs with the bounded        *)
(* re-shuffle against the morning layout, afternoon Screen/MR and the      *)
(* Wednesday lunch guard.  Random draws (random.shuffle, random.choices,   *)
(* random.choice) are nondeterministic choices over every outcome they can *)
(* produce.                                                                *)
(***************************************************************************)
EXTENDS Integers, Sequences, FiniteSets, TLC

\* ------------------------------------------------------------ constants

PRE_POP_EMPLOYEES ==
    <<"AH", "LS", "DS", "KL", "TH", "LAO", "AL", "HS", "AG", "CB", "NC">>

DAYS == <<"Monday", "Tuesday", "Wednesday", "Thursday", "Friday">>

mdk_days == <<"Monday", "Tuesday", "Thursday">>

SCREEN_MR_PER_BLOCK == 1

SCREEN_MR_WEEKLY_CAP == 1

\* the days with an MDK column in the template
mdk_cols == {"Monday", "Tuesday", "Thursday"}

\* the four stations of lab_rows["morning1"], in the template's order
LabNames == <<"LAB 3", "LAB 6", "LAB 9", "LAB 10">>

\* min(4, ...) lab slots per block
LabSlots == 4

\* for _ in range(10): the afternoon re-shuffle attempts
ShuffleAttempts == 10

\* assigned_this_week[emp] * 10
ThisWeekPenaltyFactor == 10

\* Python's None (mdk_assignments.get(day) of a day without MDK; an unset cell)
None == "None"

\* ------------------------------------------------------------ bounds

\* historical MDK counts of an employee range over 0..MaxHistory
MaxHistory == 11

\* weighted_sample_with_cap alone: k, the weekly counts and the cap range over
\* 0..MaxK, 0..MaxCount and 0..MaxCap
MaxK == 3

MaxCount == 2

MaxCap == 2

\* ------------------------------------------------------------ helpers

Range(s) == {s[i] : i \in 1..Len(s)}

Min2(a, b) == IF a < b THEN a ELSE b

\* [x for x in s if x in keep]
RECURSIVE Filter(_, _)
Filter(s, keep) ==
    IF s = <<>> THEN <<>>
    ELSE IF Head(s) \in keep THEN <<Head(s)>> \o Filter(Tail(s), keep)
    ELSE Filter(Tail(s), keep)

\* s[:n]
Take(s, n) == SubSeq(s, 1, Min2(n, Len(s)))

\* s with its i-th element removed
RemoveAt(s, i) == SubSeq(s, 1, i - 1) \o SubSeq(s, i + 1, Len(s))

\* mutant of Shuffles: four stations drawn with replacement instead of a shuffle
ShufflesWithRepeats(s) == [1..Len(s) -> Range(s)]

\* the orderings of n positions, for the lengths a station list can have
IndexOrders ==
    [n \in 0..Len(LabNames) |->
        {p \in [1..n -> 1..n] : \A i, j \in 1..n : i # j => p[i] # p[j]}]

\* every outcome of random.shuffle(x): the orderings of the elements of x
Shuffles(s) == {[i \in 1..Len(s) |-> s[p[i]]] : p \in IndexOrders[Len(s)]}

\* counter.get(emp, 0) of a Counter held as a function over the employees
Get(counter, emp) == IF emp \in DOMAIN counter THEN counter[emp] ELSE 0

\* counter[s] += 1 for every s in picks
Incr(counter, picks) ==
    [e \in DOMAIN counter |-> IF e \in Range(picks) THEN counter[e] + 1 ELSE counter[e]]

\* dict(zip(people, stations)): a later pair of the same key overwrites an earlier
Zip(people, stations) ==
    LET n == Min2(Len(people), Len(stations))
        last(p) == CHOOSE i \in 1..n : people[i] = p /\ \A j \in (i + 1)..n : people[j] # p
    IN [p \in {people[i] : i \in 1..n} |-> stations[last(p)]]

\* sorted(s, key=count.get, reverse=True): descending by count, equal keys in
\* their original order (Python's sort is stable, also under reverse=True)
RECURSIVE SortedByCountDesc(_, _)
SortedByCountDesc(s, count) ==
    IF s = <<>> THEN <<>>
    ELSE LET i == CHOOSE i \in 1..Len(s) :
                    /\ \A j \in 1..Len(s) : Get(count, s[j]) <= Get(count, s[i])
                    /\ \A j \in 1..(i - 1) : Get(count, s[j]) < Get(count, s[i])
         IN <<s[i]>> \o SortedByCountDesc(RemoveAt(s, i), count)

\* ------------------------------------------------------------ sampling

\* max(0.001, float(weight_lookup.get(c, 0))), in thousandths
Weight(weight_lookup, c) ==
    LET w == Get(weight_lookup, c) * 1000 IN IF w < 1 THEN 1 ELSE w

\* random.choices(pool, weights=probs, k=1)[0]: any element of positive weight
Choices(pool, weight_lookup) ==
    {pool[i] : i \in {j \in 1..Len(pool) : Weight(weight_lookup, pool[j]) > 0}}

\* mutant of RemoveFirst: the chosen candidate stays in the pool
RemoveFirstKeep(pool, c) == pool

\* pool.remove(chosen): removes the first occurrence
RemoveFirst(pool, c) ==
    RemoveAt(pool, CHOOSE i \in 1..Len(pool) : pool[i] = c /\ \A j \in 1..(i - 1) : pool[j] # c)

\* the while loop of _unique_weighted_choices, from (pool, picks): every list
\* of picks it can end with
RECURSIVE UniqueLoop(_, _, _, _)
UniqueLoop(pool, picks, weight_lookup, k) ==
    IF pool # <<>> /\ Len(picks) < k
    THEN UNION {UniqueLoop(RemoveFirst(pool, c), Append(picks, c), weight_lookup, k) :
                c \in Choices(pool, weight_lookup)}
    ELSE {picks}

\* _unique_weighted_choices(candidates, weight_lookup, k): every list it can return
UniqueWeightedChoices(candidates, weight_lookup, k) ==
    IF k <= 0 \/ candidates = <<>> THEN {<<>>}
    ELSE UniqueLoop(candidates, <<>>, weight_lookup, k)

\* mutant of UnderCap: a candidate at the cap still counts as under it
UnderCapInclusive(candidates, weekly_counts, cap) ==
    Filter(candidates, {c \in Range(candidates) : Get(weekly_counts, c) <= cap})

\* [c for c in candidates if weekly_counts.get(c, 0) < cap]
UnderCap(candidates, weekly_counts, cap) ==
    Filter(candidates, {c \in Range(candidates) : Get(weekly_counts, c) < cap})

\* mutant of WeightedSampleWithCap: the cap is not looked at
WeightedSampleNoCap(candidates, weight_lookup, k, weekly_counts, cap) ==
    UniqueWeightedChoices(candidates, weight_lookup, k)

\* weighted_sample_with_cap(...): every list it can return
WeightedSampleWithCap(candidates, weight_lookup, k, weekly_counts, cap) ==
    IF k <= 0 \/ candidates = <<>> THEN {<<>>}
    ELSE LET under_cap == UnderCap(candidates, weekly_counts, cap)
             picks == under_cap
             remaining_k == k - Len(picks)
             over_cap_pool == Filter(candidates, Range(candidates) \ Range(picks))
         IN IF Len(under_cap) >= k
            THEN UniqueWeightedChoices(under_cap, weight_lookup, k)
            ELSE IF remaining_k > 0 /\ over_cap_pool # <<>>
            THEN {picks \o more :
                  more \in UniqueWeightedChoices(over_cap_pool, weight_lookup, remaining_k)}
            ELSE {picks}

\* ------------------------------------------------------------ state

VARIABLES
    \* inputs of one generation run
    available_employees,    \* available_week without unavailable_whole_week, in order
    unavailable_per_day,    \* day -> set of employees absent that day
    work_rates,             \* employee -> percent 0..100
    mdk_history_counts,     \* employee -> MDK assignments in the uploaded history
    \* MDK assignment loop
    mdk_done,               \* how many of mdk_days the loop has handled
    mdk_assignments,        \* day -> holder, None where the dict has no entry
    assigned_this_week,     \* Counter: MDK assignments of this week
    \* day loop
    pc,                     \* position of the run
    planned,                \* how many of DAYS are fully planned
    day,                    \* the loop variable of the day loop
    labs,                   \* the station list, shuffled in place
    screen_mr_counts,       \* Counter used to rank people into labs
    screen_mr_week_counts,  \* Counter used against the weekly cap
    \* the day being planned: what the run computes and writes for it
    avail_day,
    mdk,
    lab_people_morning,
    morning_assign,
    screen_pool_morning,
    screen_mr_morning,
    available_for_afternoon,
    lab_people_afternoon,
    afternoon_labs,
    afternoon_assign,
    attempts,               \* iterations of the re-shuffle loop begun
    afternoon_screen_pool,
    screen_mr_afternoon,
    mdk_cell,               \* the day's MDK cell of the sheet
    lunch_guard,            \* the Wednesday lunch-guard cell of the sheet
    \* one call of weighted_sample_with_cap on its own
    sample_pc,
    sample_args,
    sample_result

inputVars == <<available_employees, unavailable_per_day, work_rates, mdk_history_counts>>

mdkVars == <<mdk_done, mdk_assignments, assigned_this_week>>

loopVars == <<planned, day, labs, screen_mr_counts, screen_mr_week_counts>>

morningVars ==
    <<avail_day, mdk, lab_people_morning, morning_assign, screen_pool_morning,
      screen_mr_morning>>

afternoonLabVars ==
    <<available_for_afternoon, lab_people_afternoon, afternoon_labs, afternoon_assign,
      attempts>>

afternoonScreenVars == <<afternoon_screen_pool, screen_mr_afternoon>>

cellVars == <<mdk_cell, lunch_guard>>

sampleVars == <<sample_pc, sample_args, sample_result>>

vars ==
    <<inputVars, mdkVars, pc, loopVars, morningVars, afternoonLabVars,
      afternoonScreenVars, cellVars, sampleVars>>

Employees == Range(PRE_POP_EMPLOYEES)

DaySet == Range(DAYS)

EmptyDict == [p \in {} |-> None]

ZeroCounter == [e \in Employees |-> 0]

\* ------------------------------------------------------------ MDK assignment

\* avail_for_day of the MDK loop
AvailForDay(d) ==
    Filter(available_employees,
           {emp \in Range(available_employees) :
                /\ emp \notin unavailable_per_day[d]
                /\ Get(work_rates, emp) > 0
                /\ emp # "AL"})

\* work_rates.get(emp, 100)
RateOr100(emp) == IF emp \in DOMAIN work_rates THEN work_rates[emp] ELSE 100

\* mutant of ThisWeekPenalty: no penalty for a duty already held this week
ThisWeekPenaltyNone(emp) == 0

\* this_week_penalty
ThisWeekPenalty(emp) == assigned_this_week[emp] * ThisWeekPenaltyFactor

\* score = history_count / rate_factor + this_week_penalty with rate_factor =
\* rate / 100.0, as the exact fraction ScoreNum / ScoreDen (rate_factor > 0).
\* The floating-point score equals it for the work rates of the inputs below
\* (0, 50, 100: rate / 100.0 and the quotient are exact)
ScoreNum(emp) ==
    Get(mdk_history_counts, emp) * 100 + ThisWeekPenalty(emp) * RateOr100(emp)

ScoreDen(emp) == RateOr100(emp)

\* scores[a] < scores[b]; a rate_factor <= 0 scores float("inf")
ScoreLess(a, b) ==
    IF ScoreDen(a) <= 0 THEN FALSE
    ELSE IF ScoreDen(b) <= 0 THEN TRUE
    ELSE ScoreNum(a) * ScoreDen(b) < ScoreNum(b) * ScoreDen(a)

\* mutant of MinScore: max(scores, key=scores.get)
MaxScore(avail) ==
    avail[CHOOSE i \in 1..Len(avail) :
            /\ \A j \in 1..Len(avail) : ~ScoreLess(avail[i], avail[j])
            /\ \A j \in 1..(i - 1) : ScoreLess(avail[j], avail[i])]

\* min(scores, key=scores.get): the first key of least score, keys in the
\* order of avail_for_day
MinScore(avail) ==
    avail[CHOOSE i \in 1..Len(avail) :
            /\ \A j \in 1..Len(avail) : ~ScoreLess(avail[j], avail[i])
            /\ \A j \in 1..(i - 1) : ScoreLess(avail[i], avail[j])]

\* mutant of MdkStep: a day without candidates ends the loop (break for continue)
MdkStepBreak ==
    /\ pc = "mdk"
    /\ mdk_done < Len(mdk_days)
    /\ LET d == mdk_days[mdk_done + 1]
           avail_for_day == AvailForDay(d)
       IN IF avail_for_day = <<>>
          THEN /\ UNCHANGED <<mdk_assignments, assigned_this_week>>
               /\ pc' = "day"
          ELSE LET chosen == MinScore(avail_for_day)
               IN /\ mdk_assignments' = [mdk_assignments EXCEPT ![d] = chosen]
                  /\ assigned_this_week' =
                         [assigned_this_week EXCEPT ![chosen] = @ + 1]
                  /\ pc' = IF mdk_done + 1 = Len(mdk_days) THEN "day" ELSE "mdk"
    /\ mdk_done' = mdk_done + 1
    /\ UNCHANGED <<inputVars, loopVars, morningVars, afternoonLabVars,
                   afternoonScreenVars, cellVars, sampleVars>>

\* one iteration of "for day in mdk_days"
MdkStep ==
    /\ pc = "mdk"
    /\ mdk_done < Len(mdk_days)
    /\ LET d == mdk_days[mdk_done + 1]
           avail_for_day == AvailForDay(d)
       IN IF avail_for_day = <<>>
          THEN UNCHANGED <<mdk_assignments, assigned_this_week>>
          ELSE LET chosen == MinScore(avail_for_day)
               IN /\ mdk_assignments' = [mdk_assignments EXCEPT ![d] = chosen]
                  /\ assigned_this_week' =
                         [assigned_this_week EXCEPT ![chosen] = @ + 1]
    /\ mdk_done' = mdk_done + 1
    /\ pc' = IF mdk_done + 1 = Len(mdk_days) THEN "day" ELSE "mdk"
    /\ UNCHANGED <<inputVars, loopVars, morningVars, afternoonLabVars,
                   afternoonScreenVars, cellVars, sampleVars>>

\* ------------------------------------------------------------ day loop

\* mutant of AvailDay: the day's absences are not taken off
AvailDayAll(d) == available_employees

\* avail_day
AvailDay(d) ==
    Filter(available_employees,
           {emp \in Range(available_employees) : emp \notin unavailable_per_day[d]})

\* bool(mdk): None and the empty string are false
Truthy(m) == m # None /\ m # ""

IsFullDayMdk(d, m) == d \in {"Tuesday", "Thursday"} /\ Truthy(m)

IsMondayMdkMorning(d, m) == d = "Monday" /\ Truthy(m)

\* mutant of LabEligibleMorning: only the full-day holder is taken off
LabEligibleMorningFullOnly(avail, d, m) ==
    Filter(avail, {emp \in Range(avail) : ~(IsFullDayMdk(d, m) /\ emp = m)})

LabEligibleMorning(avail, d, m) ==
    Filter(avail,
           {emp \in Range(avail) :
                /\ ~(IsFullDayMdk(d, m) /\ emp = m)
                /\ ~(IsMondayMdkMorning(d, m) /\ emp = m)})

\* lab_priority_candidates[:morning_lab_slots]
LabPeopleMorning(avail, d, m, counts) ==
    LET lab_priority_candidates ==
            SortedByCountDesc(LabEligibleMorning(avail, d, m), counts)
        morning_lab_slots == Min2(LabSlots, Len(lab_priority_candidates))
    IN Take(lab_priority_candidates, morning_lab_slots)

\* mutant of ScreenPoolMorning: the duty holder is not taken off
ScreenPoolMorningKeepHolder(avail, people, d, m) ==
    Filter(avail,
           {emp \in Range(avail) :
                emp \notin Range(people) /\ Get(work_rates, emp) > 0})

ScreenPoolMorning(avail, people, d, m) ==
    Filter(avail,
           {emp \in Range(avail) :
                /\ emp \notin Range(people)
                /\ Get(work_rates, emp) > 0
                /\ ~(IsFullDayMdk(d, m) /\ emp = m)
                /\ ~(IsMondayMdkMorning(d, m) /\ emp = m)})

\* the guarded call of weighted_sample_with_cap of a screening block
ScreenPicks(pool, weekly_counts) ==
    IF Len(pool) > 0
    THEN WeightedSampleWithCap(pool, work_rates, SCREEN_MR_PER_BLOCK, weekly_counts,
                               SCREEN_MR_WEEKLY_CAP)
    ELSE {<<>>}

\* mutant of AvailableForAfternoon: the full-day holder is not taken off
AvailableForAfternoonAll(avail, d, m) == avail

AvailableForAfternoon(avail, d, m) ==
    Filter(avail, {emp \in Range(avail) : ~(IsFullDayMdk(d, m) /\ emp = m)})

\* mutant of LabPeopleAfternoon: the morning screeners are not put first
LabPeopleAfternoonNoPreference(screeners, afternoon) ==
    Take(afternoon, Min2(LabSlots, Len(afternoon)))

\* combined_candidates[:afternoon_lab_slots]: the morning screeners first
LabPeopleAfternoon(screeners, afternoon) ==
    LET afternoon_lab_slots == Min2(LabSlots, Len(afternoon))
        preferred_candidates == Filter(screeners, Range(afternoon))
        other_candidates ==
            Filter(afternoon, Range(afternoon) \ Range(preferred_candidates))
        combined_candidates == preferred_candidates \o other_candidates
    IN Take(combined_candidates, afternoon_lab_slots)

\* the all(...) test of the re-shuffle loop
NoSameLab(afternoon, morning) ==
    \A p \in DOMAIN afternoon : p \in DOMAIN morning => afternoon[p] # morning[p]

\* mutant of LoopAgain: the loop has no bound
LoopAgainUnbounded(n, afternoon, morning) == ~NoSameLab(afternoon, morning)

\* whether the re-shuffle loop goes round again after its n-th iteration
LoopAgain(n, afternoon, morning) == ~NoSameLab(afternoon, morning) /\ n < ShuffleAttempts

\* mutant of AfternoonScreenPool: the work rate is not looked at
AfternoonScreenPoolAnyRate(afternoon, people) ==
    Filter(afternoon, {emp \in Range(afternoon) : emp \notin Range(people)})

AfternoonScreenPool(afternoon, people) ==
    Filter(afternoon,
           {emp \in Range(afternoon) :
                emp \notin Range(people) /\ Get(work_rates, emp) > 0})

\* mutant of LunchCandidates: no preference for people outside the morning labs
LunchCandidatesAll(avail, people) == avail

\* lunch_candidates
LunchCandidates(avail, people) ==
    LET others == Filter(avail, Range(avail) \ Range(people))
    IN IF others # <<>> THEN others ELSE avail

\* the head of one iteration of "for day in DAYS": who is available, the MDK
DayStart ==
    /\ pc = "day"
    /\ LET d == DAYS[planned + 1]
       IN /\ day' = d
          /\ avail_day' = AvailDay(d)
          /\ mdk' = mdk_assignments[d]
    /\ pc' = "morning"
    \* the names and cells of the day before are not read again
    /\ lab_people_morning' = <<>>
    /\ morning_assign' = EmptyDict
    /\ screen_pool_morning' = <<>>
    /\ screen_mr_morning' = <<>>
    /\ available_for_afternoon' = <<>>
    /\ lab_people_afternoon' = <<>>
    /\ afternoon_labs' = <<>>
    /\ afternoon_assign' = EmptyDict
    /\ attempts' = 0
    /\ afternoon_screen_pool' = <<>>
    /\ screen_mr_afternoon' = <<>>
    /\ mdk_cell' = None
    /\ lunch_guard' = None
    /\ UNCHANGED <<inputVars, mdkVars, planned, labs, screen_mr_counts,
                   screen_mr_week_counts, sampleVars>>

\* the morning block: labs first, then Screen/MR from the remainder
Morning ==
    /\ pc = "morning"
    /\ LET people == LabPeopleMorning(avail_day, day, mdk, screen_mr_counts)
           pool == ScreenPoolMorning(avail_day, people, day, mdk)
       IN /\ lab_people_morning' = people
          /\ \E shuffled \in Shuffles(labs) :
                /\ labs' = shuffled
                /\ morning_assign' = Zip(people, shuffled)
          /\ screen_pool_morning' = pool
          /\ \E picks \in ScreenPicks(pool, screen_mr_week_counts) :
                /\ screen_mr_morning' = picks
                /\ screen_mr_week_counts' = Incr(screen_mr_week_counts, picks)
                /\ screen_mr_counts' = Incr(screen_mr_counts, picks)
    /\ pc' = IF day # "Friday" THEN "afternoon" ELSE "mdk_lunch"
    /\ UNCHANGED <<inputVars, mdkVars, planned, day, avail_day, mdk, afternoonLabVars,
                   afternoonScreenVars, cellVars, sampleVars>>

\* the afternoon lab people, and the copy of the station list
Afternoon ==
    /\ pc = "afternoon"
    /\ LET afternoon == AvailableForAfternoon(avail_day, day, mdk)
       IN /\ available_for_afternoon' = afternoon
          /\ lab_people_afternoon' = LabPeopleAfternoon(screen_mr_morning, afternoon)
    /\ afternoon_labs' = labs
    /\ afternoon_assign' = EmptyDict
    /\ attempts' = 0
    /\ pc' = "reshuffle"
    /\ UNCHANGED <<inputVars, mdkVars, loopVars, morningVars, afternoonScreenVars,
                   cellVars, sampleVars>>

\* one iteration of "for _ in range(10)"
Reshuffle ==
    /\ pc = "reshuffle"
    /\ \E shuffled \in Shuffles(afternoon_labs) :
          LET assign == Zip(lab_people_afternoon, shuffled)
          IN /\ afternoon_labs' = shuffled
             /\ afternoon_assign' = assign
             /\ attempts' = attempts + 1
             /\ pc' = IF LoopAgain(attempts + 1, assign, morning_assign)
                      THEN "reshuffle"
                      ELSE "afternoon_screen"
    /\ UNCHANGED <<inputVars, mdkVars, loopVars, morningVars, available_for_afternoon,
                   lab_people_afternoon, afternoonScreenVars, cellVars, sampleVars>>

\* afternoon Screen/MR
AfternoonScreen ==
    /\ pc = "afternoon_screen"
    /\ LET pool == AfternoonScreenPool(available_for_afternoon, lab_people_afternoon)
       IN /\ afternoon_screen_pool' = pool
          /\ \E picks \in ScreenPicks(pool, screen_mr_week_counts) :
                /\ screen_mr_afternoon' = picks
                /\ screen_mr_week_counts' = Incr(screen_mr_week_counts, picks)
                /\ screen_mr_counts' = Incr(screen_mr_counts, picks)
    /\ pc' = "mdk_lunch"
    /\ UNCHANGED <<inputVars, mdkVars, planned, day, labs, morningVars,
                   afternoonLabVars, cellVars, sampleVars>>

\* "MDK & Lunch Guard", the end of the day's iteration
MdkLunch ==
    /\ pc = "mdk_lunch"
    /\ IF Truthy(mdk)
       THEN /\ mdk_cell' = IF day \in mdk_cols THEN mdk ELSE mdk_cell
            /\ UNCHANGED lunch_guard
       ELSE IF day = "Wednesday"
       THEN LET lunch_candidates == LunchCandidates(avail_day, lab_people_morning)
            IN /\ lunch_guard' \in
                      (IF lunch_candidates # <<>> THEN Range(lunch_candidates) ELSE {""})
               /\ UNCHANGED mdk_cell
       ELSE UNCHANGED <<mdk_cell, lunch_guard>>
    /\ planned' = planned + 1
    /\ pc' = IF planned + 1 = Len(DAYS) THEN "done" ELSE "day"
    /\ UNCHANGED <<inputVars, mdkVars, day, labs, screen_mr_counts,
                   screen_mr_week_counts, morningVars, afternoonLabVars,
                   afternoonScreenVars, sampleVars>>

\* weighted_sample_with_cap called on its own
SampleCall ==
    /\ sample_pc = "call"
    /\ sample_result' \in
           WeightedSampleWithCap(sample_args.candidates, sample_args.weight_lookup,
                                 sample_args.k, sample_args.weekly_counts,
                                 sample_args.cap)
    /\ sample_pc' = "return"
    /\ UNCHANGED <<inputVars, mdkVars, pc, loopVars, morningVars, afternoonLabVars,
                   afternoonScreenVars, cellVars, sample_args>>

\* ------------------------------------------------------------ inputs

\* PRE_UNAVAILABLE
PRE_UNAVAILABLE ==
    [d \in DaySet |->
        CASE d = "Monday" -> {"DS", "HS", "LS"}
          [] d = "Tuesday" -> {"LAO", "CB", "HS", "LS"}
          [] d = "Wednesday" -> {"DS", "AH", "CB", "KL"}
          [] d = "Thursday" -> {"CB", "KL", "NC"}
          [] d = "Friday" -> {"CB", "AL", "KL"}]

\* available_employees: available_week (in the order of the options) without
\* unavailable_whole_week
AvailableEmployees(available_week, unavailable_whole_week) ==
    Filter(Filter(PRE_POP_EMPLOYEES, available_week),
           available_week \ unavailable_whole_week)

\* the default of the per-day multiselect: PRE_UNAVAILABLE among the available
DefaultUnavailable(roster) == [d \in DaySet |-> PRE_UNAVAILABLE[d] \cap Range(roster)]

NoAbsence == [d \in DaySet |-> {}]

\* default_work_rates
FullRates == [e \in Employees |-> 100]

\* work rates and MDK history of a week in which TH has no clinical time, KL
\* works half time and AH and KL have held the MDK before
MixedRates == [FullRates EXCEPT !["TH"] = 0, !["KL"] = 50]

MixedHistory == [ZeroCounter EXCEPT !["AH"] = MaxHistory, !["KL"] = 1]

\* a history in which the first three employees have held the MDK once
SeniorHistory == [ZeroCounter EXCEPT !["AH"] = 1, !["LS"] = 1, !["DS"] = 1]

\* a week in which everybody is away on Monday, Tuesday and Friday
MidWeekOnly ==
    [d \in DaySet |->
        IF d \in {"Wednesday", "Thursday"} THEN {}
        ELSE {"AH", "LS", "DS", "KL", "TH", "AL"}]

\* the weeks of the full run: rosters of 0, 2 and 5 employees with nobody
\* absent, full work rates and no history; the roster of 6 with nobody absent
\* and the senior history; and the roster of 6 with one employee away all week
\* or not, the default absences, mixed rates and mixed history; and the roster
\* of 6 present on Wednesday and Thursday only, with mixed rates and no history
WeekInputs ==
    {[roster |-> AvailableEmployees(w, {}), absent |-> NoAbsence,
      rates |-> FullRates, history |-> ZeroCounter] :
        w \in {{}, {"AH", "AL"}, {"AH", "LS", "DS", "KL", "TH"}}}
    \cup
    {[roster |-> AvailableEmployees({"AH", "LS", "DS", "KL", "TH", "AL"}, {}),
      absent |-> NoAbsence, rates |-> FullRates, history |-> SeniorHistory]}
    \cup
    {[roster |-> AvailableEmployees({"AH", "LS", "DS", "KL", "TH", "AL"}, u),
      absent |-> DefaultUnavailable(
                     AvailableEmployees({"AH", "LS", "DS", "KL", "TH", "AL"}, u)),
      rates |-> MixedRates, history |-> MixedHistory] :
        u \in {{}, {"LS"}}}
    \cup
    {[roster |-> AvailableEmployees({"AH", "LS", "DS", "KL", "TH", "AL"}, {}),
      absent |-> MidWeekOnly, rates |-> MixedRates, history |-> ZeroCounter]}

\* the weeks of the MDK assignment on its own: three employees and AL, any
\* history of AH and LS up to MaxHistory, work rates 0, 50 or 100, and AH or
\* DS absent on some of the days
DutyRoster == AvailableEmployees({"AH", "LS", "DS", "AL"}, {})

DutyInputs ==
    {[roster |-> DutyRoster,
      absent |-> [d \in DaySet |-> IF d \in ah THEN {"AH"}
                                   ELSE IF d \in ds THEN {"DS", "LS"} ELSE {}],
      rates |-> [FullRates EXCEPT !["AH"] = r[1], !["LS"] = r[2]],
      history |-> [ZeroCounter EXCEPT !["AH"] = h[1], !["LS"] = h[2], !["DS"] = h[3]]] :
        ah \in SUBSET {"Tuesday"}, ds \in SUBSET {"Monday", "Thursday"},
        r \in {0, 50, 100} \X {50, 100},
        h \in (0..MaxHistory) \X (0..MaxHistory) \X {0, MaxHistory}}

\* the calls of weighted_sample_with_cap on its own
SampleNames == {"AH", "LS", "DS"}

RECURSIVE DistinctSeqs(_)
DistinctSeqs(S) ==
    {<<>>} \cup UNION {{<<x>> \o t : t \in DistinctSeqs(S \ {x})} : x \in S}

SampleInputs ==
    {[candidates |-> c, weight_lookup |-> w, k |-> k, weekly_counts |-> n, cap |-> cap] :
        c \in DistinctSeqs(SampleNames),
        w \in {FullRates, [FullRates EXCEPT !["AH"] = 0]},
        k \in 0..MaxK,
        n \in [SampleNames -> 0..MaxCount],
        cap \in 0..MaxCap}

\* ------------------------------------------------------------ runs

InitRun(in) ==
    /\ available_employees = in.roster
    /\ unavailable_per_day = in.absent
    /\ work_rates = in.rates
    /\ mdk_history_counts = in.history
    /\ mdk_done = 0
    /\ mdk_assignments = [d \in DaySet |-> None]
    /\ assigned_this_week = ZeroCounter
    /\ pc = "mdk"
    /\ planned = 0
    /\ day = None
    /\ labs = LabNames
    /\ screen_mr_counts = ZeroCounter
    /\ screen_mr_week_counts = ZeroCounter
    /\ avail_day = <<>>
    /\ mdk = None
    /\ lab_people_morning = <<>>
    /\ morning_assign = EmptyDict
    /\ screen_pool_morning = <<>>
    /\ screen_mr_morning = <<>>
    /\ available_for_afternoon = <<>>
    /\ lab_people_afternoon = <<>>
    /\ afternoon_labs = <<>>
    /\ afternoon_assign = EmptyDict
    /\ attempts = 0
    /\ afternoon_screen_pool = <<>>
    /\ screen_mr_afternoon = <<>>
    /\ mdk_cell = None
    /\ lunch_guard = None

\* one click of the generate button
Init ==
    /\ \E in \in WeekInputs : InitRun(in)
    /\ sample_pc = "idle"
    /\ sample_args = None
    /\ sample_result = None

Next ==
    \/ MdkStep
    \/ DayStart
    \/ Morning
    \/ Afternoon
    \/ Reshuffle
    \/ AfternoonScreen
    \/ MdkLunch

Spec == Init /\ [][Next]_vars

\* the MDK assignment loop alone, over more histories, rates and absences
InitDuty ==
    /\ \E in \in DutyInputs : InitRun(in)
    /\ sample_pc = "idle"
    /\ sample_args = None
    /\ sample_result = None

SpecDuty == InitDuty /\ [][MdkStep]_vars

\* weighted_sample_with_cap alone, over its arguments
InitSample ==
    /\ InitRun([roster |-> <<>>, absent |-> NoAbsence, rates |-> FullRates,
                history |-> ZeroCounter])
    /\ sample_pc = "call"
    /\ sample_args \in SampleInputs
    /\ sample_result = None

SpecSample == InitSample /\ [][SampleCall]_vars

\* ------------------------------------------------------------ properties

\* the people of the slots of the day being planned
MorningLabSet == DOMAIN morning_assign

AfternoonLabSet == DOMAIN afternoon_assign

MorningScreenSet == Range(screen_mr_morning)

AfternoonScreenSet == Range(screen_mr_afternoon)

LunchGuardSet == {lunch_guard} \ {None, ""}

\* the duty holder of day d in the week's duty map, if any
HolderSet(d) == IF d \in DaySet THEN {mdk_assignments[d]} \ {None} ELSE {}

Injective(f) == \A p, q \in DOMAIN f : p # q => f[p] # f[q]

\* the morning block of the day is done / the afternoon labs of the day are done
MorningDone == pc \in {"afternoon", "reshuffle", "afternoon_screen", "mdk_lunch"}
                   \/ (pc \in {"day", "done"} /\ planned > 0)

AfternoonLabsDone == day \in DaySet /\ day # "Friday"
                         /\ (pc \in {"afternoon_screen", "mdk_lunch"}
                                \/ (pc \in {"day", "done"} /\ planned > 0))

DayDone == pc \in {"day", "done"} /\ planned > 0

\* C1: on Tuesday and Thursday a duty holder is in none of the day's slots:
\* morning lab, morning screening, afternoon lab, afternoon screening, lunch guard
C1_FullDayExclusive ==
    day \in {"Tuesday", "Thursday"} =>
        \A h \in HolderSet(day) :
            h \notin MorningLabSet \cup MorningScreenSet \cup AfternoonLabSet
                         \cup AfternoonScreenSet \cup LunchGuardSet

\* a Tuesday fully planned whose holder was available that day, with people in
\* all four lab and screening slots
C1_Witness ==
    /\ DayDone /\ day = "Tuesday"
    /\ \E h \in HolderSet(day) : h \in Range(avail_day)
    /\ MorningLabSet # {} /\ MorningScreenSet # {}
    /\ AfternoonLabSet # {} /\ AfternoonScreenSet # {}

\* C2: on Monday a duty holder is neither in the morning lab assignment nor in
\* morning screening (the afternoon is open to the holder: see the witness)
C2_HalfDayMorning ==
    day = "Monday" =>
        \A h \in HolderSet(day) : h \notin MorningLabSet \cup MorningScreenSet

\* a Monday on which the duty holder is in the afternoon lab assignment
C2_Witness ==
    /\ DayDone /\ day = "Monday"
    /\ \E h \in HolderSet(day) : h \in AfternoonLabSet
    /\ MorningLabSet # {}

\* the eligible pool of the morning block: the day's available employees without
\* the holder of a duty day; of the afternoon block: without a full-day holder
EligibleMorningSet == Range(avail_day) \ HolderSet(day)

EligibleAfternoonSet ==
    Range(avail_day) \ (IF day \in {"Tuesday", "Thursday"} THEN HolderSet(day) ELSE {})

\* C3: in each block the lab assignment is one-to-one, gives every lab person
\* exactly one station, assigns at most 4 and exactly min(4, eligible pool)
C3_LabBijection ==
    /\ MorningDone =>
          /\ Injective(morning_assign)
          /\ \A p \in MorningLabSet : morning_assign[p] \in Range(LabNames)
          /\ Cardinality(MorningLabSet) = Len(lab_people_morning)
          /\ Cardinality(MorningLabSet) <= 4
          /\ Cardinality(MorningLabSet) = Min2(4, Cardinality(EligibleMorningSet))
    /\ AfternoonLabsDone =>
          /\ Injective(afternoon_assign)
          /\ \A p \in AfternoonLabSet : afternoon_assign[p] \in Range(LabNames)
          /\ Cardinality(AfternoonLabSet) = Len(lab_people_afternoon)
          /\ Cardinality(AfternoonLabSet) <= 4
          /\ Cardinality(AfternoonLabSet) = Min2(4, Cardinality(EligibleAfternoonSet))

\* a Wednesday, the station list shuffled on three days, with four of more
\* than four eligible people in the morning labs and four in the afternoon labs
C3_Witness ==
    /\ AfternoonLabsDone /\ day = "Wednesday"
    /\ labs # LabNames
    /\ Cardinality(MorningLabSet) = 4 /\ Cardinality(EligibleMorningSet) > 4
    /\ Cardinality(AfternoonLabSet) = 4

\* C4: whoever is in a slot of the day (duty, labs, screening, lunch guard) is in
\* the week roster and not absent that day; so is every holder of the duty map
C4_SlotsAvailable ==
    /\ \A d \in DaySet : \A h \in HolderSet(d) :
          h \in Range(available_employees) /\ h \notin unavailable_per_day[d]
    /\ day \in DaySet =>
          \A e \in MorningLabSet \cup MorningScreenSet \cup AfternoonLabSet
                       \cup AfternoonScreenSet \cup LunchGuardSet :
              e \in Range(available_employees) /\ e \notin unavailable_per_day[day]

\* a Wednesday with absent employees, a lunch guard and people in labs
C4_Witness ==
    /\ DayDone /\ day = "Wednesday"
    /\ unavailable_per_day[day] \cap Range(available_employees) # {}
    /\ LunchGuardSet # {} /\ MorningLabSet # {} /\ AfternoonLabSet # {}

\* C5: a screener already at or above the weekly cap is chosen for a block only
\* when every candidate of that block's pool is at or above the cap
C5_SoftCap ==
    [][/\ (pc = "morning" /\ pc' # "morning") =>
             \A s \in Range(screen_mr_morning') :
                 screen_mr_week_counts[s] >= SCREEN_MR_WEEKLY_CAP =>
                     \A c \in Range(screen_pool_morning') :
                         screen_mr_week_counts[c] >= SCREEN_MR_WEEKLY_CAP
       /\ (pc = "afternoon_screen" /\ pc' # "afternoon_screen") =>
             \A s \in Range(screen_mr_afternoon') :
                 screen_mr_week_counts[s] >= SCREEN_MR_WEEKLY_CAP =>
                     \A c \in Range(afternoon_screen_pool') :
                         screen_mr_week_counts[c] >= SCREEN_MR_WEEKLY_CAP]_vars

\* an afternoon screener chosen for the second time this week out of a pool of
\* two or more
C5_Witness ==
    /\ pc = "mdk_lunch" /\ day # "Friday"
    /\ Len(afternoon_screen_pool) >= 2
    /\ \E s \in AfternoonScreenSet : screen_mr_week_counts[s] >= 2

\* the duty days handled so far, and the holder chosen on the i-th of them
HandledDuty == 1..mdk_done

HolderOn(i) == mdk_assignments[mdk_days[i]]

\* the candidates eligible for the duty on the i-th duty day: in the week
\* roster, not absent that day, of positive work rate, and not AL
EligibleOn(i) ==
    {e \in Range(available_employees) :
        /\ e \notin unavailable_per_day[mdk_days[i]]
        /\ work_rates[e] > 0
        /\ e # "AL"}

\* the duty assignments of e on the duty days before the i-th
HeldBefore(e, i) == Cardinality({j \in 1..(i - 1) : HolderOn(j) = e})

\* score(a) <= score(b) on the i-th duty day, score = history / (rate / 100) +
\* 10 x (duty assignments before that day), for positive rates
ScoreAtMost(a, b, i) ==
    (mdk_history_counts[a] * 100 + 10 * HeldBefore(a, i) * work_rates[a]) * work_rates[b]
        <= (mdk_history_counts[b] * 100 + 10 * HeldBefore(b, i) * work_rates[b])
               * work_rates[a]

\* C6 as stated: a holder who already holds the duty on an earlier day of the
\* week is chosen only when every eligible candidate already holds it too
C6_NoDoubleBookingUnlessForced ==
    \A i \in HandledDuty :
        (HolderOn(i) # None /\ HeldBefore(HolderOn(i), i) > 0) =>
            \A e \in EligibleOn(i) : HeldBefore(e, i) > 0

\* C6 amended: a holder who already holds the duty on an earlier day of the
\* week is chosen only when every eligible candidate either holds it already
\* or has a score no lower than the holder's score with its 10-per-assignment
\* penalty
C6_DoubleBookingOnlyByScore ==
    \A i \in HandledDuty :
        (HolderOn(i) # None /\ HeldBefore(HolderOn(i), i) > 0) =>
            \A e \in EligibleOn(i) :
                HeldBefore(e, i) > 0 \/ ScoreAtMost(HolderOn(i), e, i)

\* a holder chosen a second time although an eligible candidate holds no duty yet
C6_Witness ==
    \E i \in HandledDuty :
        /\ HolderOn(i) # None /\ HeldBefore(HolderOn(i), i) > 0
        /\ \E e \in EligibleOn(i) : HeldBefore(e, i) = 0

\* C9: the holder of each duty day has the least score among that day's
\* eligible candidates; of two eligible candidates of equal work rate and equal
\* this-week duty count, the one with the higher history is not the holder
C9_MinScoreChosen ==
    \A i \in HandledDuty :
        /\ EligibleOn(i) # {} => HolderOn(i) \in EligibleOn(i)
        /\ HolderOn(i) # None =>
              /\ \A e \in EligibleOn(i) : ScoreAtMost(HolderOn(i), e, i)
              /\ \A e, f \in EligibleOn(i) :
                    (/\ work_rates[e] = work_rates[f]
                     /\ HeldBefore(e, i) = HeldBefore(f, i)
                     /\ mdk_history_counts[e] > mdk_history_counts[f])
                        => HolderOn(i) # e

\* a duty day with a holder of history 0 beside an eligible candidate of the
\* same work rate and duty count and history 5, and a candidate of another rate
C9_Witness ==
    \E i \in HandledDuty :
        /\ HolderOn(i) # None
        /\ mdk_history_counts[HolderOn(i)] = 0
        /\ \E e \in EligibleOn(i) :
              /\ work_rates[e] = work_rates[HolderOn(i)]
              /\ HeldBefore(e, i) = HeldBefore(HolderOn(i), i)
              /\ mdk_history_counts[e] = 5
        /\ \E e \in EligibleOn(i) : work_rates[e] # work_rates[HolderOn(i)]

\* the arguments and the result of the call of weighted_sample_with_cap
SampleReturned == sample_pc = "return"

SampleUnder ==
    {c \in Range(sample_args.candidates) :
        sample_args.weekly_counts[c] < sample_args.cap}

\* C7: the result of weighted_sample_with_cap holds candidates of the input
\* only, no candidate twice, at most k of them, and min(k, number of
\* candidates) of them when k > 0
C7_SampleShape ==
    SampleReturned =>
        /\ Range(sample_result) \subseteq Range(sample_args.candidates)
        /\ \A i, j \in 1..Len(sample_result) : i # j => sample_result[i] # sample_result[j]
        /\ Len(sample_result) <= sample_args.k
        /\ Len(sample_result) < sample_args.k =>
               Len(sample_args.candidates) < sample_args.k
        /\ sample_args.k > 0 =>
               Len(sample_result) = Min2(sample_args.k, Len(sample_args.candidates))

\* a call with k = 2 on three candidates, one of them under the cap, returning
\* two candidates
C7_Witness ==
    /\ SampleReturned
    /\ sample_args.k = 2 /\ Len(sample_args.candidates) = 3
    /\ Cardinality(SampleUnder) = 1
    /\ Len(sample_result) = 2

\* C8: with at least k candidates under the cap every returned candidate is
\* under the cap; with fewer than k, every candidate under the cap is returned
C8_CapPreference ==
    SampleReturned =>
        /\ Cardinality(SampleUnder) >= sample_args.k =>
               Range(sample_result) \subseteq SampleUnder
        /\ Cardinality(SampleUnder) < sample_args.k =>
               SampleUnder \subseteq Range(sample_result)

\* a call with k = 1 on three candidates, the first of them at the cap and of
\* full weight, the other two under the cap and one of these of weight 0
C8_Witness ==
    /\ SampleReturned
    /\ sample_args.k = 1 /\ Len(sample_args.candidates) = 3
    /\ Cardinality(SampleUnder) = 2
    /\ sample_args.candidates[1] \notin SampleUnder
    /\ \E u \in SampleUnder :
          sample_args.weight_lookup[u] < sample_args.weight_lookup[sample_args.candidates[1]]
    /\ Len(sample_result) = 1

\* the people of both layouts who keep their morning station in the afternoon
SameStation ==
    {p \in AfternoonLabSet \cap MorningLabSet : afternoon_assign[p] = morning_assign[p]}

\* C10: the re-shuffle loop runs at most 10 times; it goes on only after an
\* attempt that left somebody on the morning station, and ends at the first
\* attempt that leaves nobody there or with the 10th; the kept assignment is a
\* one-to-one mapping of the afternoon lab people to stations
C10_ReshuffleBounded ==
    /\ attempts <= 10
    /\ pc = "reshuffle" => attempts < 10 /\ (attempts > 0 => SameStation # {})
    /\ pc = "afternoon_screen" =>
          /\ attempts >= 1
          /\ SameStation = {} \/ attempts = 10
          /\ AfternoonLabSet = Range(lab_people_afternoon)
          /\ Injective(afternoon_assign)
          /\ \A p \in AfternoonLabSet : afternoon_assign[p] \in Range(LabNames)

\* the loop ended by its 10th attempt, somebody still on the morning station
C10_Witness ==
    /\ pc = "afternoon_screen"
    /\ attempts = 10
    /\ SameStation # {}

\* a week of exactly 5 employees, all of work rate 100, nobody absent on any
\* day, no duty history
FiveDefault ==
    /\ Len(available_employees) = 5
    /\ \A e \in Range(available_employees) :
          work_rates[e] = 100 /\ mdk_history_counts[e] = 0
    /\ \A d \in DaySet : unavailable_per_day[d] \cap Range(available_employees) = {}

\* C11 as stated: in such a week the morning labs of every day hold 4 of the 5
\* employees and the fifth is the one morning screener
C11_FourLabsOneScreener ==
    (FiveDefault /\ MorningDone) =>
        /\ Cardinality(MorningLabSet) = 4 /\ Injective(morning_assign)
        /\ MorningScreenSet = Range(available_employees) \ MorningLabSet
        /\ Cardinality(MorningScreenSet) = 1

\* C11 amended: in such a week the morning labs of every day hold 4 employees
\* on distinct stations; on Wednesday and Friday the fifth is the one morning
\* screener; on Monday, Tuesday and Thursday the fifth is the duty holder and
\* morning screening is empty
C11_FourLabsScreenerOffDuty ==
    (FiveDefault /\ MorningDone) =>
        /\ Cardinality(MorningLabSet) = 4 /\ Injective(morning_assign)
        /\ day \in {"Wednesday", "Friday"} =>
              /\ MorningScreenSet = Range(available_employees) \ MorningLabSet
              /\ Cardinality(MorningScreenSet) = 1
        /\ day \in {"Monday", "Tuesday", "Thursday"} =>
              /\ HolderSet(day) = Range(available_employees) \ MorningLabSet
              /\ MorningScreenSet = {}

\* such a week with the mornings of two duty days and of Wednesday planned
C11_Witness ==
    /\ FiveDefault /\ MorningDone
    /\ day = "Wednesday" /\ Cardinality(MorningScreenSet) = 1
    /\ \A d \in Range(mdk_days) : HolderSet(d) # {}

\* the employees of the week roster whose work rate is 0
ZeroRateSet == {e \in Range(available_employees) : work_rates[e] = 0}

\* C12: an employee of work rate 0 holds the duty on no day and is in neither
\* morning nor afternoon screening of any day
C12_ZeroRateExcluded ==
    \A e \in ZeroRateSet :
        /\ \A d \in DaySet : e \notin HolderSet(d)
        /\ e \notin MorningScreenSet \cup AfternoonScreenSet

\* a day with an employee of work rate 0 available and in neither lab layout,
\* and with a morning and an afternoon screener
C12_Witness ==
    /\ DayDone /\ day # "Friday"
    /\ \E e \in ZeroRateSet :
          e \in Range(avail_day) /\ e \notin MorningLabSet \cup AfternoonLabSet
    /\ MorningScreenSet # {} /\ AfternoonScreenSet # {}

\* C13: a lunch guard is set only on Wednesday and only without a duty holder
\* that day; the guard is available on Wednesday, and is in the morning labs
\* only if everybody available is; with nobody available no guard is set
C13_LunchGuard ==
    /\ \A g \in LunchGuardSet :
          /\ day = "Wednesday"
          /\ HolderSet(day) = {}
          /\ g \in Range(available_employees) \ unavailable_per_day[day]
          /\ g \in MorningLabSet =>
                Range(available_employees) \ unavailable_per_day[day] \subseteq MorningLabSet
    /\ (day = "Wednesday"
          /\ Range(available_employees) \ unavailable_per_day[day] = {}) =>
              LunchGuardSet = {}

\* a Wednesday with more people available than lab stations and a lunch guard
C13_Witness ==
    /\ DayDone /\ day = "Wednesday"
    /\ Cardinality(MorningLabSet) = 4
    /\ Cardinality(Range(avail_day)) > 4
    /\ LunchGuardSet # {}

\* C14: the duty map is computed over Monday, Tuesday, Thursday, in that order,
\* before the first day is planned; planning leaves the duty map and the
\* this-week duty counter alone, so the holders do not depend on the shuffles
\* and draws; the days are planned once each, Monday to Friday in order
C14_DutiesThenDays ==
    [][/\ pc' # "mdk" => mdk_done' = Len(mdk_days)
       /\ pc' = "mdk" => (planned' = 0 /\ day' = None)
       /\ pc # "mdk" => UNCHANGED <<mdk_assignments, assigned_this_week, mdk_done>>
       /\ pc = "mdk" =>
             /\ mdk_done' = mdk_done + 1
             /\ \A d \in DaySet :
                   mdk_assignments'[d] # mdk_assignments[d] => d = mdk_days[mdk_done']
       /\ day' # day => (planned' = planned /\ planned < Len(DAYS)
                            /\ day' = DAYS[planned + 1])
       /\ planned' # planned => (planned' = planned + 1 /\ day = DAYS[planned'])
       /\ pc' = "done" => planned' = Len(DAYS)
       /\ (pc = "day") = (day' # day)]_vars

\* the week fully planned, with a holder on each duty day, screeners drawn and
\* the stations shuffled
C14_Witness ==
    /\ pc = "done" /\ planned = 5 /\ day = "Friday"
    /\ \A d \in Range(mdk_days) : HolderSet(d) # {}
    /\ \E e \in Employees : screen_mr_week_counts[e] >= 2
    /\ labs # LabNames

\* C15: on a day other than Friday a morning screener is in the afternoon lab
\* assignment and is not an afternoon screener; in each block the screeners and
\* the people of the lab assignment are disjoint
C15_ScreenerMovesToLab ==
    /\ MorningDone => MorningLabSet \cap MorningScreenSet = {}
    /\ (AfternoonLabsDone /\ day # "Friday") =>
          /\ MorningScreenSet \subseteq AfternoonLabSet
          /\ MorningScreenSet \cap AfternoonScreenSet = {}
          /\ AfternoonLabSet \cap AfternoonScreenSet = {}

\* a day other than Friday, fully planned, with a screener in each block
C15_Witness ==
    /\ DayDone /\ day # "Friday"
    /\ MorningScreenSet # {}
    /\ AfternoonScreenSet # {}
    /\ MorningScreenSet \subseteq AfternoonLabSet

====
